---- MODULE Spec2Model ----
(***************************************************************************)
(* Model of neopixels.ino: a strip of addressable LEDs driven by a fixed   *)
(* sequence of dot / fill / equaliser / chase / rainbow effects.           *)
(*                                                                         *)
(* The pixel buffer `leds` is indexed 0..numLeds-1.  Every pass of a for   *)
(* loop that ends in FastLED.show(); delay() is one action.  delay() has   *)
(* no effect on the buffer and is not modelled beyond the delay_ms field   *)
(* carried by each call.                                                   *)
(*                                                                         *)
(* An access outside an array is undefined behaviour.  What it does is     *)
(* fixed by where the build places the two static arrays; `layout` is that *)
(* choice, made once in Init:                                              *)
(*   "apart"           leds and rainbow are not adjacent                   *)
(*   "ledsThenRainbow" rainbow[0] sits at the address of leds[numLeds]     *)
(*   "rainbowThenLeds" leds[0] sits at the address of rainbow[RAINBOW_LEN] *)
(* A read that lands in unknown memory yields an arbitrary colour.  Every  *)
(* out-of-range access is recorded in `oob`.                               *)
(***************************************************************************)
EXTENDS Integers, Sequences, FiniteSets, TLC

(* ---------------------------------------------------------------------- *)
(* Program constants                                                       *)
(* ---------------------------------------------------------------------- *)
NUM_LEDS == 150

RAINBOW_LEN == 7

CHASE_COUNT == 100

Palette == <<"Red", "Orange", "Yellow", "Green", "Blue", "Indigo", "Violet">>

Colours ==
  {"Black", "White", "Red", "Orange", "Yellow", "Green", "Blue", "Indigo",
   "Violet", "Magenta", "Cyan"}

Layouts == {"apart", "ledsThenRainbow", "rainbowThenLeds"}

(* ---------------------------------------------------------------------- *)
(* Bounds of the single-call specification                                 *)
(* ---------------------------------------------------------------------- *)
MaxLeds == 4

MaxNeg == 2

TestColours == {"Black", "Red", "White"}

(* ---------------------------------------------------------------------- *)
(* State                                                                   *)
(* ---------------------------------------------------------------------- *)
VARIABLES
  numLeds,   \* length of the strip (NUM_LEDS in the sketch)
  leds,      \* the pixel buffer, [0..numLeds-1 -> colour]
  rainbow,   \* the palette array, a sequence of RAINBOW_LEN colours
  layout,    \* placement of the two arrays chosen by the build
  oob,       \* out-of-range accesses so far: <<array, index>>
  call,      \* the top-level invocation being executed
  prog,      \* the primitive calls / statements the invocation runs
  ip,        \* index in prog of the current statement (0 before the first)
  pc,        \* "run": inside statement ip; "ret": statement ip has returned
  dot,       \* the loop variable `dot` of the current statement
  count,     \* the loop variable `count` of the chase
  start,     \* the buffer when the top-level invocation began
  frame,     \* the buffer last handed to FastLED.show()
  flushes,   \* FastLED.show() calls made by the current statement
  writes,    \* indices stored to by the current statement
  pairs      \* <<half+dot, half-dot>> pairs visited by the current statement

vars ==
  <<numLeds, leds, rainbow, layout, oob, call, prog, ip, pc, dot, count,
    start, frame, flushes, writes, pairs>>

(* ---------------------------------------------------------------------- *)
(* Arithmetic                                                              *)
(* ---------------------------------------------------------------------- *)
\* (int)(n * num/den): conversion of a double to int truncates toward zero
IntCast(n, num, den) ==
  IF n * num >= 0 THEN (n * num) \div den ELSE -((-(n * num)) \div den)

\* int half = (int)(top * 0.5)
Half(top) == IntCast(top, 5, 10)

(* ---------------------------------------------------------------------- *)
(* Memory                                                                  *)
(* ---------------------------------------------------------------------- *)
Mem == [leds |-> leds, rainbow |-> rainbow]

InRange(i) == i >= 0 /\ i < numLeds

\* leds[i] = c
Write(m, i, c) ==
  IF InRange(i) THEN [m EXCEPT !.leds[i] = c]
  ELSE IF i = numLeds /\ layout = "ledsThenRainbow"
    THEN [m EXCEPT !.rainbow[1] = c]
  ELSE IF i = -1 /\ layout = "rainbowThenLeds"
    THEN [m EXCEPT !.rainbow[RAINBOW_LEN] = c]
  ELSE m

\* the out-of-range ones among the indices a step stores to
OobWrites(S) == {<<"leds", i>> : i \in {j \in S : ~InRange(j)}}

\* the values rainbow[k] can yield (k counted from 0 as in the sketch)
ReadRainbow(m, k) ==
  IF k >= 0 /\ k < RAINBOW_LEN THEN {m.rainbow[k + 1]}
  ELSE IF k = RAINBOW_LEN /\ layout = "rainbowThenLeds" THEN {m.leds[0]}
  ELSE Colours

(* ---------------------------------------------------------------------- *)
(* Calls: each operator yields the statements the call executes            *)
(* ---------------------------------------------------------------------- *)
Stmt(fn, top, fg, bg, d) ==
  [fn |-> fn, top |-> top, fg |-> fg, bg |-> bg, delay_ms |-> d]

dotBottomToTop(top, fg, bg, d) == <<Stmt("dotBottomToTop", top, fg, bg, d)>>

dotTopToBottom(top, fg, bg, d) == <<Stmt("dotTopToBottom", top, fg, bg, d)>>

dotMiddleOut(top, fg, bg, d) == <<Stmt("dotMiddleOut", top, fg, bg, d)>>

dotOutsideIn(top, fg, bg, d) == <<Stmt("dotOutsideIn", top, fg, bg, d)>>

fillBottomToTop(top, bar, d) == dotBottomToTop(top, bar, bar, d)

\* fillTopToBottom erasing to Black behind the moving dot
fillTopToBottomErasing(top, bar, d) == dotTopToBottom(top, bar, "Black", d)

fillTopToBottom(top, bar, d) == dotTopToBottom(top, bar, bar, d)

fillMiddleOut(top, bar, d) == dotMiddleOut(top, bar, bar, d)

fillOutsideIn(top, bar, d) == dotOutsideIn(top, bar, bar, d)

equaliser(top, tc, bc, d) ==
  fillBottomToTop(top, bc, d)
    \o <<Stmt("peak", top, tc, tc, d)>>
    \o fillTopToBottom(top - 2, "Black", d)

(* ---------------------------------------------------------------------- *)
(* Loop control of the four move primitives                                *)
(* ---------------------------------------------------------------------- *)
\* InitDot with dotTopToBottom starting one slot lower, at top - 1
InitDotBelowTop(s) ==
  CASE s.fn = "dotTopToBottom" -> s.top - 1
    [] s.fn = "dotOutsideIn"   -> Half(s.top)
    [] OTHER                   -> 0

\* the initialiser of the for loop of statement s
InitDot(s) ==
  CASE s.fn = "dotTopToBottom" -> s.top
    [] s.fn = "dotOutsideIn"   -> Half(s.top)
    [] OTHER                   -> 0

\* LoopCond with dotBottomToTop running up to and including top
LoopCondInclusive(s) ==
  CASE s.fn = "dotBottomToTop" -> dot <= s.top
    [] s.fn = "dotTopToBottom" -> dot >= 0
    [] s.fn = "dotMiddleOut"   -> dot < Half(s.top)
    [] s.fn = "dotOutsideIn"   -> dot >= 0
    [] s.fn = "chaseSetup"     -> dot < s.top
    [] s.fn = "chase"          -> count < CHASE_COUNT
    [] s.fn = "rainbowSweep"   -> dot < s.top
    [] OTHER                   -> TRUE

\* the condition of the for loop of statement s
LoopCond(s) ==
  CASE s.fn = "dotBottomToTop" -> dot < s.top
    [] s.fn = "dotTopToBottom" -> dot >= 0
    [] s.fn = "dotMiddleOut"   -> dot < Half(s.top)
    [] s.fn = "dotOutsideIn"   -> dot >= 0
    [] s.fn = "chaseSetup"     -> dot < s.top
    [] s.fn = "chase"          -> count < CHASE_COUNT
    [] s.fn = "rainbowSweep"   -> dot < s.top
    [] OTHER                   -> TRUE

Running(fn) == pc = "run" /\ prog[ip].fn = fn

\* one pass of a loop body: memory m1 is shown, m2 is left behind, the
\* indices in S were stored to
Pass(m1, m2, S) ==
  /\ frame' = m1.leds
  /\ leds' = m2.leds
  /\ rainbow' = m2.rainbow
  /\ flushes' = flushes + 1
  /\ writes' = writes \cup S
  /\ oob' = oob \cup OobWrites(S)

(* ---------------------------------------------------------------------- *)
(* The four move primitives                                                *)
(* ---------------------------------------------------------------------- *)
StepDotBottomToTop ==
  /\ Running("dotBottomToTop")
  /\ LoopCond(prog[ip])
  /\ LET s == prog[ip]
         m1 == Write(Mem, dot, s.fg)
         m2 == Write(m1, dot, s.bg)
     IN Pass(m1, m2, {dot})
  /\ dot' = dot + 1
  /\ UNCHANGED <<numLeds, layout, call, prog, ip, pc, count, start, pairs>>

StepDotTopToBottom ==
  /\ Running("dotTopToBottom")
  /\ LoopCond(prog[ip])
  /\ LET s == prog[ip]
         m1 == Write(Mem, dot, s.fg)
         m2 == Write(m1, dot, s.bg)
     IN Pass(m1, m2, {dot})
  /\ dot' = dot - 1
  /\ UNCHANGED <<numLeds, layout, call, prog, ip, pc, count, start, pairs>>

\* leds[half + dot] = c; leds[half - dot] = c;
WritePair(m, half, d, c) == Write(Write(m, half + d, c), half - d, c)

StepDotMiddleOut ==
  /\ Running("dotMiddleOut")
  /\ LoopCond(prog[ip])
  /\ LET s == prog[ip]
         half == Half(s.top)
         m1 == WritePair(Mem, half, dot, s.fg)
         m2 == WritePair(m1, half, dot, s.bg)
     IN /\ Pass(m1, m2, {half + dot, half - dot})
        /\ pairs' = Append(pairs, <<half + dot, half - dot>>)
  /\ dot' = dot + 1
  /\ UNCHANGED <<numLeds, layout, call, prog, ip, pc, count, start>>

StepDotOutsideIn ==
  /\ Running("dotOutsideIn")
  /\ LoopCond(prog[ip])
  /\ LET s == prog[ip]
         half == Half(s.top)
         m1 == WritePair(Mem, half, dot, s.fg)
         m2 == WritePair(m1, half, dot, s.bg)
     IN /\ Pass(m1, m2, {half + dot, half - dot})
        /\ pairs' = Append(pairs, <<half + dot, half - dot>>)
  /\ dot' = dot - 1
  /\ UNCHANGED <<numLeds, layout, call, prog, ip, pc, count, start>>

(* ---------------------------------------------------------------------- *)
(* equaliser: the store between its two fills                              *)
(* ---------------------------------------------------------------------- *)
\* leds[top-1] = top_colour;
PeakWrite ==
  /\ Running("peak")
  /\ LET s == prog[ip]
         m == Write(Mem, s.top - 1, s.fg)
     IN /\ leds' = m.leds
        /\ rainbow' = m.rainbow
        /\ writes' = writes \cup {s.top - 1}
        /\ oob' = oob \cup OobWrites({s.top - 1})
  /\ pc' = "ret"
  /\ UNCHANGED <<numLeds, layout, call, prog, ip, dot, count, start, frame,
                 flushes, pairs>>

(* ---------------------------------------------------------------------- *)
(* Sequencing                                                              *)
(* ---------------------------------------------------------------------- *)
\* the loop condition is false: the statement is finished
Return ==
  /\ pc = "run"
  /\ ~LoopCond(prog[ip])
  /\ pc' = "ret"
  /\ UNCHANGED <<numLeds, leds, rainbow, layout, oob, call, prog, ip, dot,
                 count, start, frame, flushes, writes, pairs>>

\* control reaches the next statement
Call ==
  /\ pc = "ret"
  /\ ip < Len(prog)
  /\ ip' = ip + 1
  /\ pc' = "run"
  /\ dot' = InitDot(prog[ip + 1])
  /\ count' = 0
  /\ flushes' = 0
  /\ writes' = {}
  /\ pairs' = <<>>
  /\ UNCHANGED <<numLeds, leds, rainbow, layout, oob, call, prog, start,
                 frame>>

Done == pc = "ret" /\ ip = Len(prog)

(* ---------------------------------------------------------------------- *)
(* SpecCall: one call of a primitive, a fill or the equaliser, on any      *)
(* strip of up to MaxLeds pixels with any content                          *)
(* ---------------------------------------------------------------------- *)
Invocation(op, top, c1, c2) == [op |-> op, top |-> top, c1 |-> c1, c2 |-> c2]

Expand(c) ==
  CASE c.op = "dotBottomToTop"  -> dotBottomToTop(c.top, c.c1, c.c2, 10)
    [] c.op = "dotTopToBottom"  -> dotTopToBottom(c.top, c.c1, c.c2, 10)
    [] c.op = "dotMiddleOut"    -> dotMiddleOut(c.top, c.c1, c.c2, 10)
    [] c.op = "dotOutsideIn"    -> dotOutsideIn(c.top, c.c1, c.c2, 10)
    [] c.op = "fillBottomToTop" -> fillBottomToTop(c.top, c.c1, 10)
    [] c.op = "fillTopToBottom" -> fillTopToBottom(c.top, c.c1, 10)
    [] c.op = "fillMiddleOut"   -> fillMiddleOut(c.top, c.c1, 10)
    [] c.op = "fillOutsideIn"   -> fillOutsideIn(c.top, c.c1, 10)
    [] c.op = "equaliser"       -> equaliser(c.top, c.c1, c.c2, 10)
    [] c.op = "fillUpThenDown"  -> fillBottomToTop(c.top, c.c1, 10)
                                     \o fillTopToBottom(c.top, c.c1, 10)

DotOps == {"dotBottomToTop", "dotTopToBottom", "dotMiddleOut", "dotOutsideIn"}

FillOps ==
  {"fillBottomToTop", "fillTopToBottom", "fillMiddleOut", "fillOutsideIn"}

Invocations(n) ==
  {Invocation(op, top, fg, bg) :
     op \in DotOps, top \in (-MaxNeg)..n, fg \in TestColours, bg \in TestColours}
  \cup
  {Invocation(op, top, c, c) :
     op \in FillOps, top \in (-MaxNeg)..n, c \in TestColours}
  \cup
  {Invocation("equaliser", top, tc, bc) :
     top \in 0..n, tc \in TestColours, bc \in TestColours}
  \cup
  {Invocation("fillUpThenDown", top, c, c) :
     top \in 0..(n - 1), c \in TestColours}

InitCall ==
  /\ numLeds \in 1..MaxLeds
  /\ leds \in [0..(numLeds - 1) -> TestColours]
  /\ rainbow = Palette
  /\ layout \in Layouts
  /\ oob = {}
  /\ call \in Invocations(numLeds)
  /\ prog = Expand(call)
  /\ ip = 0
  /\ pc = "ret"
  /\ dot = 0
  /\ count = 0
  /\ start = leds
  /\ frame = leds
  /\ flushes = 0
  /\ writes = {}
  /\ pairs = <<>>

NextCall ==
  \/ Call
  \/ StepDotBottomToTop
  \/ StepDotTopToBottom
  \/ StepDotMiddleOut
  \/ StepDotOutsideIn
  \/ PeakWrite
  \/ Return

SpecCall == InitCall /\ [][NextCall]_vars

(* ---------------------------------------------------------------------- *)
(* The chase                                                               *)
(* ---------------------------------------------------------------------- *)
\* int third = (int)(NUM_LEDS * 0.33333);
Third(n) == IntCast(n, 33333, 100000)

\* first chase loop: one pass per group, each pass shown
ChaseSetupStep ==
  /\ Running("chaseSetup")
  /\ LoopCond(prog[ip])
  /\ LET m1 == Write(Write(Write(Mem, dot * 3, "Cyan"),
                           dot * 3 + 1, "Cyan"),
                     dot * 3 + 2, "Black")
     IN Pass(m1, m1, {dot * 3, dot * 3 + 1, dot * 3 + 2})
  /\ dot' = dot + 1
  /\ UNCHANGED <<numLeds, layout, call, prog, ip, pc, count, start, pairs>>

\* second chase loop: one pass of the inner loop (nothing is shown)
ChaseInnerStep ==
  /\ Running("chase")
  /\ LoopCond(prog[ip])
  /\ dot < prog[ip].top
  /\ LET k == count % 3
         m1 == Write(Write(Write(Mem, dot * 3 + k, "Cyan"),
                           dot * 3 + k - 1, "Cyan"),
                     dot * 3 + k - 1, "Black")
     IN /\ leds' = m1.leds
        /\ rainbow' = m1.rainbow
        /\ writes' = writes \cup {dot * 3 + k, dot * 3 + k - 1}
        /\ oob' = oob \cup OobWrites({dot * 3 + k, dot * 3 + k - 1})
  /\ dot' = dot + 1
  /\ UNCHANGED <<numLeds, layout, call, prog, ip, pc, count, start, frame,
                 flushes, pairs>>

\* second chase loop: the inner loop is finished; FastLED.show(); and the
\* next pass of the outer loop
ChaseShow ==
  /\ Running("chase")
  /\ LoopCond(prog[ip])
  /\ ~(dot < prog[ip].top)
  /\ frame' = leds
  /\ flushes' = flushes + 1
  /\ count' = count + 1
  /\ dot' = 0
  /\ UNCHANGED <<numLeds, leds, rainbow, layout, oob, call, prog, ip, pc,
                 start, writes, pairs>>

(* ---------------------------------------------------------------------- *)
(* The rainbow                                                             *)
(* ---------------------------------------------------------------------- *)
\* fill_solid(leds, NUM_LEDS, CRGB::Black); FastLED.show();
FillSolidShow ==
  /\ Running("fillSolid")
  /\ leds' = [i \in 0..(prog[ip].top - 1) |-> prog[ip].fg]
  /\ frame' = leds'
  /\ flushes' = flushes + 1
  /\ writes' = writes \cup 0..(prog[ip].top - 1)
  /\ pc' = "ret"
  /\ UNCHANGED <<numLeds, rainbow, layout, oob, call, prog, ip, dot, count,
                 start, pairs>>

\* Bands rounding up instead of down
BandsRoundedUp(n) == (n + RAINBOW_LEN - 1) \div RAINBOW_LEN

\* int bands = (int)NUM_LEDS / RAINBOW_LEN;
Bands(n) == n \div RAINBOW_LEN

RainbowStep ==
  /\ Running("rainbowSweep")
  /\ LoopCond(prog[ip])
  /\ LET k == dot \div Bands(prog[ip].top)
     IN /\ \E c \in ReadRainbow(Mem, k) :
             LET m1 == Write(Mem, dot, c) IN
               /\ frame' = m1.leds
               /\ leds' = m1.leds
               /\ rainbow' = m1.rainbow
        /\ oob' = oob \cup OobWrites({dot})
                      \cup (IF k >= 0 /\ k < RAINBOW_LEN
                              THEN {} ELSE {<<"rainbow", k>>})
  /\ flushes' = flushes + 1
  /\ writes' = writes \cup {dot}
  /\ dot' = dot + 1
  /\ UNCHANGED <<numLeds, layout, call, prog, ip, pc, count, start, pairs>>

(* ---------------------------------------------------------------------- *)
(* Spec: the sketch after setup(), loop() called again and again           *)
(* ---------------------------------------------------------------------- *)
\* LoopBody with the third and fourth equaliser call exchanged
LoopBodyExchanged(n) ==
  dotOutsideIn(n, "Magenta", "Black", 50)
    \o dotOutsideIn(n, "Magenta", "Black", 25)
    \o dotOutsideIn(n, "Magenta", "Black", 10)
    \o dotOutsideIn(n, "Magenta", "Black", 5)
    \o dotOutsideIn(n, "Magenta", "Black", 5)
    \o dotOutsideIn(n, "Magenta", "Black", 5)
    \o fillMiddleOut(n, "Yellow", 2)
    \o dotTopToBottom(n, "Black", "Black", 30)
    \o equaliser(IntCast(n, 25, 100), "Red", "White", 10)
    \o equaliser(IntCast(n, 25, 100), "Red", "White", 10)
    \o equaliser(IntCast(n, 5, 10), "Red", "White", 10)
    \o equaliser(IntCast(n, 33333, 100000), "Red", "White", 10)
    \o equaliser(IntCast(n, 75, 100), "Red", "White", 10)
    \o equaliser(n, "Red", "White", 10)
    \o fillTopToBottom(n, "Red", 10)
    \o fillMiddleOut(n, "Black", 30)
    \o <<Stmt("chaseSetup", Third(n), "Cyan", "Black", 60)>>
    \o <<Stmt("chase", Third(n), "Cyan", "Black", 100)>>
    \o fillOutsideIn(n, "Green", 30)
    \o dotOutsideIn(n, "Green", "Black", 20)
    \o <<Stmt("fillSolid", n, "Black", "Black", 0)>>
    \o <<Stmt("rainbowSweep", n, "Black", "Black", 30)>>

\* the body of loop() for a strip of n pixels
LoopBody(n) ==
  dotOutsideIn(n, "Magenta", "Black", 50)
    \o dotOutsideIn(n, "Magenta", "Black", 25)
    \o dotOutsideIn(n, "Magenta", "Black", 10)
    \o dotOutsideIn(n, "Magenta", "Black", 5)
    \o dotOutsideIn(n, "Magenta", "Black", 5)
    \o dotOutsideIn(n, "Magenta", "Black", 5)
    \o fillMiddleOut(n, "Yellow", 2)
    \o dotTopToBottom(n, "Black", "Black", 30)
    \o equaliser(IntCast(n, 25, 100), "Red", "White", 10)
    \o equaliser(IntCast(n, 25, 100), "Red", "White", 10)
    \o equaliser(IntCast(n, 33333, 100000), "Red", "White", 10)
    \o equaliser(IntCast(n, 5, 10), "Red", "White", 10)
    \o equaliser(IntCast(n, 75, 100), "Red", "White", 10)
    \o equaliser(n, "Red", "White", 10)
    \o fillTopToBottom(n, "Red", 10)
    \o fillMiddleOut(n, "Black", 30)
    \o <<Stmt("chaseSetup", Third(n), "Cyan", "Black", 60)>>
    \o <<Stmt("chase", Third(n), "Cyan", "Black", 100)>>
    \o fillOutsideIn(n, "Green", 30)
    \o dotOutsideIn(n, "Green", "Black", 20)
    \o <<Stmt("fillSolid", n, "Black", "Black", 0)>>
    \o <<Stmt("rainbowSweep", n, "Black", "Black", 30)>>

\* LoopAgain re-entering the body after its first statement
LoopAgainSkipsFirst ==
  /\ call.op = "loop"
  /\ Done
  /\ ip' = 1
  /\ UNCHANGED <<numLeds, leds, rainbow, layout, oob, call, prog, pc, dot,
                 count, start, frame, flushes, writes, pairs>>

\* loop() has returned and is called again
LoopAgain ==
  /\ call.op = "loop"
  /\ Done
  /\ ip' = 0
  /\ UNCHANGED <<numLeds, leds, rainbow, layout, oob, call, prog, pc, dot,
                 count, start, frame, flushes, writes, pairs>>

Init ==
  /\ numLeds = NUM_LEDS
  /\ leds = [i \in 0..(numLeds - 1) |-> "Black"]
  /\ rainbow = Palette
  /\ layout \in Layouts
  /\ oob = {}
  /\ call = Invocation("loop", numLeds, "Black", "Black")
  /\ prog = LoopBody(numLeds)
  /\ ip = 0
  /\ pc = "ret"
  /\ dot = 0
  /\ count = 0
  /\ start = leds
  /\ frame = leds
  /\ flushes = 0
  /\ writes = {}
  /\ pairs = <<>>

Next ==
  \/ Call
  \/ StepDotBottomToTop
  \/ StepDotTopToBottom
  \/ StepDotMiddleOut
  \/ StepDotOutsideIn
  \/ PeakWrite
  \/ ChaseSetupStep
  \/ ChaseInnerStep
  \/ ChaseShow
  \/ FillSolidShow
  \/ RainbowStep
  \/ Return
  \/ LoopAgain

Spec == Init /\ [][Next]_vars

\* the sketch is the only thread of control and the Arduino core calls
\* loop() from an endless for (;;): whenever a step is possible one is taken
SpecLive == Init /\ [][Next]_vars /\ WF_vars(Next)

(* ====================================================================== *)
(* Properties                                                              *)
(* ====================================================================== *)
Slots == 0..(numLeds - 1)

\* the single call of SpecCall is a call of op with an extent in lo..hi
Called(op, lo, hi) == call.op = op /\ call.top >= lo /\ call.top <= hi

\* the pairs dotMiddleOut(top, ...) visits, in order (lines 84-87)
PairsMiddleOut(top) ==
  [k \in 1..Half(top) |-> <<Half(top) + (k - 1), Half(top) - (k - 1)>>]

\* the memory dotMiddleOut leaves behind, from pass d of its loop onward
RECURSIVE RunMiddleOut(_, _, _, _, _)
RunMiddleOut(m, half, d, fg, bg) ==
  IF d < half
    THEN RunMiddleOut(WritePair(WritePair(m, half, d, fg), half, d, bg),
                      half, d + 1, fg, bg)
    ELSE m

Reverse(q) == [k \in 1..Len(q) |-> q[Len(q) + 1 - k]]

\* the two operators above agree with the stepwise dotMiddleOut
MiddleOutAgrees ==
  (Done /\ call.op = "dotMiddleOut") =>
     /\ pairs = PairsMiddleOut(call.top)
     /\ leds = RunMiddleOut([leds |-> start, rainbow |-> Palette],
                            Half(call.top), 0, call.c1, call.c2).leds

(* C1: during a pass of loop() with 150 pixels no effect stores to a slot  *)
(* outside 0..149 (neither slot -1 nor slot 150 is ever written).          *)
C1_AllWritesInRange == \A a \in oob : a[1] # "leds"

(* C2: dotBottomToTop(extent, fg, bg, d) with extent in 0..N shows exactly *)
(* extent frames; when it returns every slot below extent is bg and every  *)
(* slot from extent on has the value it had before the call.               *)
C2_BottomToTopResult ==
  (Done /\ Called("dotBottomToTop", 0, numLeds)) =>
     /\ flushes = call.top
     /\ \A i \in Slots : leds[i] = IF i < call.top THEN call.c2 ELSE start[i]

C2_Witness ==
  /\ Done
  /\ Called("dotBottomToTop", 2, numLeds)
  /\ call.top = numLeds
  /\ call.c1 # call.c2
  /\ \A i \in Slots : start[i] # call.c2
  /\ flushes = numLeds

(* C3: from the same buffer, dotOutsideIn(extent, ...) visits exactly the  *)
(* index pairs of dotMiddleOut(extent, ...) in the reverse order, and      *)
(* leaves the buffer dotMiddleOut leaves, for every extent in 0..N.        *)
C3_OutsideInMirrorsMiddleOut ==
  (Done /\ Called("dotOutsideIn", 0, numLeds)) =>
     /\ pairs = Reverse(PairsMiddleOut(call.top))
     /\ leds = RunMiddleOut([leds |-> start, rainbow |-> Palette],
                            Half(call.top), 0, call.c1, call.c2).leds

(* C4: after equaliser(top, peak, bar, d) with top in 0..N the peak colour *)
(* has been stored to slot top-1 exactly when top >= 1, the slots below    *)
(* top-2 are Black, and no slot above top-1 differs from its value before  *)
(* the call.                                                               *)
C4_EqualiserResult ==
  (Done /\ Called("equaliser", 0, numLeds)) =>
     /\ call.top >= 1 => leds[call.top - 1] = call.c1
     /\ call.top < 1 => <<"leds", call.top - 1>> \notin oob
     /\ \A i \in Slots : i < call.top - 2 => leds[i] = "Black"
     /\ \A i \in Slots : i > call.top - 1 => leds[i] = start[i]

(* C5: each of the four move primitives called with extent <= 0 makes no   *)
(* pass of its loop: nothing is shown, no slot is stored to and the buffer *)
(* is as before.                                                           *)
C5_NoStepForEmptyExtent ==
  (ip = 1 /\ call.op \in DotOps /\ call.top <= 0) =>
     /\ flushes = 0
     /\ writes = {}
     /\ leds = start

(* C6: after each of the four fills with an extent in 1..N-1 every slot    *)
(* below the extent, slot 0 included, has the fill colour.                 *)
C6_FillCoversExtent ==
  (Done /\ call.op \in FillOps /\ call.top >= 1 /\ call.top < numLeds) =>
     \A i \in Slots : i < call.top => leds[i] = call.c1

(* C9: dotTopToBottom(extent, fg, bg, d) with extent in 0..N-1 visits the  *)
(* slots extent, extent-1, ..., 0 in that order, one per frame; it shows   *)
(* extent + 1 frames and leaves every slot in 0..extent at bg.             *)
C9_TopToBottomOrder ==
  (ip = 1 /\ Called("dotTopToBottom", 0, numLeds - 1)) =>
     /\ writes = (dot + 1)..call.top
     /\ flushes = call.top - dot
     /\ \A i \in writes : leds[i] = call.c2
     /\ pc = "ret" => flushes = call.top + 1

C9_Witness ==
  /\ Done
  /\ Called("dotTopToBottom", 2, numLeds - 1)
  /\ call.c1 # call.c2
  /\ \A i \in Slots : start[i] # call.c2
  /\ flushes = call.top + 1
  /\ writes = 0..call.top

\* the rainbow sweep is the current statement, running or just finished
InSweep == ip > 0 /\ prog[ip].fn = "rainbowSweep"

(* C7: with 150 pixels and 7 palette entries the sweep uses bands of 21    *)
(* slots and gives slot 21*k the palette entry k for k = 0..6; slots 0 and *)
(* 20 get entry 0 and slot 21 gets entry 1.                                *)
C7_BandBoundaries ==
  InSweep =>
     /\ Bands(numLeds) = 21
     /\ \A k \in 0..6 : dot > 21 * k => leds[21 * k] = rainbow[k + 1]
     /\ dot > 20 => leds[20] = rainbow[1]

C7_Witness ==
  /\ InSweep
  /\ pc = "ret"
  /\ rainbow = Palette
  /\ leds[0] = "Red" /\ leds[20] = "Red" /\ leds[21] = "Orange"
  /\ leds[126] = "Violet"

(* C8: in the sweep every palette index dot / bands is in 0..6, and every  *)
(* remainder slot (147..149 with 150 pixels) gets the last palette entry.  *)
C8_RemainderGetsLastEntry ==
  /\ \A a \in oob : a[1] # "rainbow"
  /\ InSweep =>
       \A i \in Slots :
         (i >= Bands(numLeds) * RAINBOW_LEN /\ i < dot)
            => leds[i] = rainbow[RAINBOW_LEN]

\* the colours shown in group g of a frame, bottom slot first
Group(f, g) == <<f[3 * g], f[3 * g + 1], f[3 * g + 2]>>

\* a pass of the outer chase loop has just been shown
ChaseShown == Running("chase") /\ dot = 0 /\ count >= 1

(* C10: the chase shows one frame per pass of its outer loop, and in each  *)
(* such frame every group of three slots holds two Cyan slots and one      *)
(* Black slot, the pair moving up by one slot (modulo 3) per pass.         *)
C10_TwoOfThreeLit ==
  ChaseShown =>
     /\ flushes = count
     /\ \A g \in 0..(prog[ip].top - 1) :
          /\ Cardinality({j \in 1..3 : Group(frame, g)[j] = "Cyan"}) = 2
          /\ Group(frame, g)[((count + 1) % 3) + 1] = "Black"

\* the memory the dotTopToBottom statement s leaves behind, from pass d of
\* its loop onward (lines 67-72)
RECURSIVE RunTopToBottom(_, _, _)
RunTopToBottom(m, s, d) ==
  IF d >= 0
    THEN RunTopToBottom(Write(Write(m, d, s.fg), d, s.bg), s, d - 1)
    ELSE m

\* RunTopToBottom agrees with the stepwise dotTopToBottom
TopToBottomAgrees ==
  (Done /\ call.op = "dotTopToBottom") =>
     leds = RunTopToBottom([leds |-> start, rainbow |-> Palette],
                           prog[1], call.top).leds

(* C11: fillBottomToTop(extent, c, d) directly followed by                 *)
(* fillTopToBottom(extent, c, d), extent in 0..N-1, leaves every slot      *)
(* below extent at c, and leaves the buffer that fillTopToBottom(extent,   *)
(* c, d) alone leaves from the same start.                                 *)
C11_FillUpThenDown ==
  (Done /\ Called("fillUpThenDown", 0, numLeds - 1)) =>
     /\ \A i \in Slots : i < call.top => leds[i] = call.c1
     /\ leds = RunTopToBottom([leds |-> start, rainbow |-> Palette],
                              fillTopToBottom(call.top, call.c1, 10)[1],
                              call.top).leds

C11_Witness ==
  /\ Done
  /\ Called("fillUpThenDown", 2, numLeds - 1)
  /\ ip = 2
  /\ \A i \in Slots : start[i] # call.c1
  /\ \A i \in Slots : i <= call.top => leds[i] = call.c1

\* the first statement of loop() has just been entered
FirstEffectStarted == ip = 1 /\ pc = "run" /\ flushes = 0

(* C12: every effect of loop() returns after finitely many steps, every    *)
(* pass reaches the end of the rainbow sweep, and the first effect of the  *)
(* sequence is started again and again, for ever.                          *)
C12_SequencerNeverStops ==
  /\ [](pc = "run" => <>(pc = "ret"))
  /\ []<>(InSweep /\ pc = "ret")
  /\ []<>FirstEffectStarted

\* the first effect is started again after a full pass
C12_Witness ==
  /\ FirstEffectStarted
  /\ <<"rainbow", RAINBOW_LEN>> \in oob
  /\ \A i \in Slots : i < Bands(numLeds) => leds[i] = rainbow[1]

\* control is at the store of an equaliser call, or just past it
AtPeak == ip > 0 /\ prog[ip].fn = "peak"

\* the equaliser calls of this pass before the current one
PeaksBefore == {j \in 1..(ip - 1) : prog[j].fn = "peak"}

(* C13 as claimed: in a pass of loop() each of the six equaliser calls has *)
(* an extent less than or equal to that of the equaliser call before it,   *)
(* and the last extent is smaller than the first.                          *)
C13_ExtentsShrink ==
  AtPeak =>
     /\ \A j \in PeaksBefore : prog[ip].top <= prog[j].top
     /\ Cardinality(PeaksBefore) = 5 =>
          \A j \in PeaksBefore : prog[ip].top < prog[j].top

(* C13 amended: in a pass of loop() each of the six equaliser calls has an *)
(* extent greater than or equal to that of the equaliser call before it,   *)
(* and the last extent is greater than the first.                          *)
C13_ExtentsGrow ==
  AtPeak =>
     /\ Cardinality(PeaksBefore) <= 5
     /\ \A j \in PeaksBefore : prog[ip].top >= prog[j].top
     /\ Cardinality(PeaksBefore) = 5 =>
          \A j \in PeaksBefore : prog[ip].top > prog[j].top

C13_Witness ==
  /\ AtPeak
  /\ pc = "ret"
  /\ Cardinality(PeaksBefore) = 5
  /\ prog[ip].top = NUM_LEDS
  /\ leds[NUM_LEDS - 1] = "Red"

\* one of the four move primitives is called with an extent in 0..N
DotCalled == ip = 1 /\ call.op \in DotOps /\ call.top >= 0 /\ call.top <= numLeds

(* C14: a move primitive called with extent e in 0..N stores only to slots *)
(* in 0..e-1: at every step of the call each slot from e on holds the      *)
(* value it had before the call.                                           *)
C14_WritesBelowExtent ==
  DotCalled =>
     /\ \A i \in writes : i >= 0 /\ i < call.top
     /\ \A i \in Slots : i >= call.top => leds[i] = start[i]

\* the value `dot` had in the pass of the loop made last
LastDot == IF call.op \in {"dotBottomToTop", "dotMiddleOut"} THEN dot - 1 ELSE dot + 1

\* the slots the pass made last stores to
LastSlots ==
  IF call.op \in {"dotBottomToTop", "dotTopToBottom"}
    THEN {LastDot}
    ELSE {Half(call.top) + LastDot, Half(call.top) - LastDot}

\* the slots of the frame shown last that have the foreground colour
Lit == {i \in Slots : frame[i] = call.c1}

\* a move primitive with fg # bg, on a buffer holding no fg, has shown a frame
DotShown ==
  /\ ip = 1
  /\ call.op \in DotOps
  /\ call.c1 # call.c2
  /\ \A i \in Slots : start[i] # call.c1
  /\ flushes >= 1

(* C15: a move primitive called with fg # bg on a buffer without fg shows  *)
(* fg in each frame at the slots of the current step and nowhere else      *)
(* (one slot for dotBottomToTop and dotTopToBottom, at most two for the    *)
(* other two); the slots of earlier steps are bg in that frame, and no     *)
(* slot is shown as fg in more than one frame.                             *)
C15_OneFramePerSlot ==
  DotShown =>
     /\ Lit = LastSlots
     /\ \A i \in (writes \ LastSlots) \cap Slots : frame[i] = call.c2
     /\ Cardinality(writes) =
          IF call.op \in {"dotBottomToTop", "dotTopToBottom"} THEN flushes
          ELSE IF call.op = "dotMiddleOut" \/ dot < 0 THEN 2 * flushes - 1
          ELSE 2 * flushes

\* the first chase loop has finished
SetupDone == ip > 0 /\ prog[ip].fn = "chaseSetup" /\ pc = "ret"

\* a pass of the inner loop of the second chase loop has finished
ChasePassDone ==
  /\ Running("chase")
  /\ count < CHASE_COUNT
  /\ ~(dot < prog[ip].top)

(* C16: with 150 pixels the chase works on 150 / 3 = 50 groups: its first  *)
(* loop and every pass of its second loop go through the groups 0..49, and *)
(* every slot 0..149 (147, 148 and 149 included) is stored to by the       *)
(* chase.                                                                  *)
C16_ChaseCoversStrip ==
  /\ SetupDone => (dot = 50 /\ writes = Slots)
  /\ ChasePassDone => dot = 50
  /\ (Running("chase") /\ count >= 3) => Slots \subseteq writes

(* C17: the rainbow sweep shows one frame per slot, N frames in all; the   *)
(* frame shown after slot k was assigned has every slot in 0..k at the     *)
(* palette colour of its band (the last entry for the remainder slots) and *)
(* every slot above k still Black.                                         *)
C17_SweepReveal ==
  InSweep =>
     /\ flushes = dot
     /\ pc = "ret" => flushes = numLeds
     /\ flushes >= 1 =>
          \A i \in Slots :
            frame[i] =
              IF i >= dot THEN "Black"
              ELSE IF i \div Bands(numLeds) < RAINBOW_LEN
                THEN rainbow[(i \div Bands(numLeds)) + 1]
              ELSE rainbow[RAINBOW_LEN]

====
